---- MODULE Spec2Model ----
(***************************************************************************)
(* Madryn Empleos front end: the Oferta API client (src/lib/api/ofertas.ts) *)
(* and the submission state machines of the create form                     *)
(* (src/app/nuevo-aviso/page.tsx) and the edit form (src/unnamed/part_000). *)
(*                                                                          *)
(* The specifications share the definitions of the API client:             *)
(*   ApiSpec      the API client functions applied to bounded inputs and    *)
(*                backend responses (the functions are pure up to the HTTP  *)
(*                exchange, which is an input here);                        *)
(*   SchemaSpec   the forms' zod schemas applied to bounded field values;   *)
(*   Spec         one mounted form instance (create or edit) of the         *)
(*                posting's owner, the user, the backend and an             *)
(*                administrator acting concurrently (FairSpec: with the     *)
(*                timers running);                                          *)
(*   SessionSpec  one form page while the session resolves and ends.        *)
(***************************************************************************)
EXTENDS Integers, Sequences, FiniteSets, TLC

VARIABLES
    schemaInput,      \* SchemaSpec: the values to validate: form, field values, instant
    schemaResult,     \* SchemaSpec: the resolver's verdict on them: issues and field errors
    apiInput,         \* ApiSpec: the call to make: function, input data, HTTP exchange
    apiCall,          \* ApiSpec: the last API client call: input, request, response, outcome
    deleteLog,        \* ApiSpec: the delete calls made so far, in order
    backend,          \* the posting on the backend: [exists, habilitado]
    session,          \* useSession(): status and, once authenticated, user id and token
    invalidations,    \* the query keys handed to queryClient.invalidateQueries, in order
    page,             \* Spec: which form is mounted, "create" or "edit"
    route,            \* Spec: the router's current location
    oferta,           \* Spec: the posting the edit form is given (useOfertaById's data)
    form,             \* Spec: react-hook-form's field values
    lastSubmit,       \* Spec: react-hook-form's verdict on the last submit event
    existingLogoUrl,  \* Spec: useState existingLogoUrl (the edit form only)
    isSubmitting,     \* Spec: useState isSubmitting
    submitError,      \* Spec: useState submitError (the edit form only)
    submitSuccess,    \* Spec: useState submitSuccess
    mutation,         \* Spec: the useMutation state: status and error
    requests,         \* Spec: create/update requests in flight, oldest first
    timers            \* Spec: pending setTimeout callbacks, oldest first

schemaVars == <<schemaInput, schemaResult>>
apiVars == <<apiInput, apiCall, deleteLog>>
formVars == <<session, invalidations, page, route, oferta, form, lastSubmit, existingLogoUrl,
              isSubmitting, submitError, submitSuccess, mutation, requests, timers>>
vars == <<schemaInput, schemaResult, apiInput, apiCall, deleteLog, backend, session,
          invalidations, page, route, oferta, form, lastSubmit,
          existingLogoUrl, isSubmitting, submitError, submitSuccess, mutation,
          requests, timers>>

----------------------------------------------------------------------------
(* Values.  Text the user types is a sequence of one-character strings, so  *)
(* that trimming, length and character tests are computed.  JavaScript's    *)
(* null and undefined are sentinels that no typed text can equal (their     *)
(* single element is not a character).                                      *)

NULL == <<"null">>
UNDEFINED == <<"undefined">>

\* Bounds of the model.
MaxDeletes == 2        \* delete calls recorded by ApiSpec
MaxInFlight == 2       \* create/update requests in flight that the model follows
MaxTimers == 2         \* pending navigation timers that the model follows

\* The posting the delete/enable/edit operations are about, and its owner.
OfertaId == "o1"
OwnerId == "u1"
\* a signed-in user who does not own the posting
OtherUserId == "u2"
Token == "tok"

----------------------------------------------------------------------------
(* HTTP exchange.  A response carries its status and its body text; the     *)
(* transport may also fail with no response at all.                         *)

Statuses == {200, 204, 401, 404, 500}

\* Body texts a backend may answer with, and what JSON.parse makes of each.
Bodies == {"{\"id\":\"o1\"}", "[]", "null", "42", "\"x\"", "true", "", "boom"}

JsonKind(body) ==
    CASE body = "{\"id\":\"o1\"}" -> "object"
      [] body = "[]" -> "array"
      [] body = "null" -> "null"
      [] body = "42" -> "number"
      [] body = "\"x\"" -> "string"
      [] body = "true" -> "boolean"
      [] OTHER -> "invalid"

Response(status, body) == [type |-> "response", status |-> status, body |-> body]
NetworkFailure == [type |-> "network_error", status |-> 0, body |-> ""]
Responses == {Response(s, b) : s \in Statuses, b \in Bodies} \cup {NetworkFailure}

\* response.ok
Ok(resp) == resp.type = "response" /\ resp.status >= 200 /\ resp.status <= 299

----------------------------------------------------------------------------
(* Errors and outcomes of an API client call.                                *)

Msg(template, status, text) == [template |-> template, status |-> status, text |-> text]
NoMsg == Msg("", 0, "")

\* new Error(`Error ${response.status}: ${errorText}`)
RequestFailed(resp) ==
    [name |-> "Error", message |-> Msg("Error ${status}: ${errorText}", resp.status, resp.body)]
\* new Error("La respuesta del servidor no es un array válido")
NotAnArray ==
    [name |-> "Error", message |-> Msg("La respuesta del servidor no es un array valido", 0, "")]
\* new Error("La respuesta del servidor no es un objeto válido")
NotAnObject ==
    [name |-> "Error", message |-> Msg("La respuesta del servidor no es un objeto valido", 0, "")]
\* what fetch rejects with when there is no response
FetchTypeError == [name |-> "TypeError", message |-> Msg("Failed to fetch", 0, "")]
\* what response.json() throws on a body that is not JSON
JsonSyntaxError == [name |-> "SyntaxError", message |-> Msg("Unexpected token", 0, "")]
NoError == [name |-> "", message |-> NoMsg]

IsRequestFailed(err) == err.name = "Error" /\ err.message.template = "Error ${status}: ${errorText}"
IsMalformed(err) == err \in {NotAnArray, NotAnObject}

\* error instanceof Error
InstanceOfError(thrown) == thrown.name \in {"Error", "TypeError", "SyntaxError"}

Resolved(value) == [state |-> "resolved", value |-> value, error |-> NoError]
Rejected(err) == [state |-> "rejected", value |-> "", error |-> err]
Thrown(err) == [state |-> "thrown", value |-> "", error |-> err]

\* a catch that replaces whatever was thrown by the fallback error
CatchReplacing(tried, fallback) ==
    IF tried.state = "thrown"
    THEN Rejected([name |-> "Error", message |-> Msg(fallback, 0, "")])
    ELSE tried

\* catch (error) { throw error instanceof Error ? error : new Error(fallback) }
Catch(tried, fallback) ==
    IF tried.state = "thrown"
    THEN Rejected(IF InstanceOfError(tried.error)
                  THEN tried.error
                  ELSE [name |-> "Error", message |-> Msg(fallback, 0, "")])
    ELSE tried

----------------------------------------------------------------------------
(* Files and sample texts.                                                  *)

File(size, type) == [kind |-> "file", size |-> size, type |-> type]
NullFile == [kind |-> "null", size |-> 0, type |-> ""]
UndefinedFile == [kind |-> "undefined", size |-> 0, type |-> ""]
PngLogo == File(1024, "image/png")
\* a JavaScript truthiness test of a File | null | undefined
HasFile(f) == f.kind = "file"

EmptyText == << >>
EmailOk == <<"a", "@", "b", ".", "c", "o">>
EmailBad == <<"a", "b">>
LinkOk == <<"h", "t", "t", "p", "s", ":", "/", "/", "x", ".", "y">>
TitleOk == <<"C", "o", "c", "i", "n", "e", "r", "o">>
TextOk == <<"o", "k">>
LogoUrlOk == <<"l", "_", "a", ".", "p", "n", "g">>
\* the literal string "null", which is not the value null
NullLiteral == <<"n", "u", "l", "l">>

CatOk == <<"c", "1">>
\* the values of an <input type="date">: yesterday, today, tomorrow
DayYesterday == <<"d", "0">>
DayToday == <<"d", "1">>
DayTomorrow == <<"d", "2">>

\* new Date(value).toISOString(): the day's first instant, written out
IsoString(dateText) == dateText \o <<"T", "0", "0", ":", "0", "0", "Z">>

\* a JavaScript truthiness test of a string | null | undefined
Truthy(text) == text # NULL /\ text # UNDEFINED /\ text # EmptyText
\* a ?? b
Coalesce(a, b) == IF a = NULL \/ a = UNDEFINED THEN b ELSE a
\* a || b
OrElse(a, b) == IF Truthy(a) THEN a ELSE b

----------------------------------------------------------------------------
(* The Oferta API client: the request each function builds, and the outcome *)
(* it settles with for a given HTTP exchange.                               *)

\* a payload that forwards both contact fields untouched
createOfertaPayloadNoNulling(data) ==
    [titulo |-> data.titulo,
     descripcion |-> data.descripcion,
     usuario |-> data.usuarioId,
     empresaConsultora |-> data.empresaConsultora,
     fechaCierre |-> data.fechaCierre,
     formaPostulacion |-> data.formaPostulacion,
     emailContacto |-> data.emailContacto,
     linkPostulacion |-> data.linkPostulacion,
     categoria |-> data.categoriaId]

\* createOferta: the object serialised into the "oferta" part
createOfertaPayload(data) ==
    [titulo |-> data.titulo,
     descripcion |-> data.descripcion,
     usuario |-> data.usuarioId,
     empresaConsultora |-> data.empresaConsultora,
     fechaCierre |-> data.fechaCierre,
     formaPostulacion |-> data.formaPostulacion,
     emailContacto |-> IF data.formaPostulacion = "MAIL" THEN data.emailContacto ELSE NULL,
     linkPostulacion |-> IF data.formaPostulacion = "LINK" THEN data.linkPostulacion ELSE NULL,
     categoria |-> data.categoriaId]

\* createOferta: the multipart request handed to fetch
createOfertaRequest(data, token) ==
    [method |-> "POST",
     url |-> "/api/ofertas",
     authorization |-> token,
     oferta |-> createOfertaPayload(data),
     logo |-> IF HasFile(data.logo) THEN data.logo ELSE UndefinedFile,
     logoUrl |-> UNDEFINED]

\* updateOferta: the object serialised into the "oferta" part
updateOfertaPayload(data) ==
    [id |-> data.id,
     titulo |-> data.titulo,
     descripcion |-> data.descripcion,
     usuario |-> data.usuarioId,
     empresaConsultora |-> data.empresaConsultora,
     fechaCierre |-> IF Truthy(data.fechaCierre) THEN IsoString(data.fechaCierre) ELSE NULL,
     formaPostulacion |-> data.formaPostulacion,
     emailContacto |-> IF data.formaPostulacion = "MAIL" THEN data.emailContacto ELSE NULL,
     linkPostulacion |-> IF data.formaPostulacion = "LINK" THEN data.linkPostulacion ELSE NULL,
     categoria |-> data.categoriaId,
     habilitado |-> data.habilitado]

\* a request whose logoUrl part is the held value, without the "null" literal
updateOfertaRequestNoLiteral(data, token) ==
    [method |-> "PUT",
     url |-> "/api/ofertas/{id}",
     authorization |-> token,
     oferta |-> updateOfertaPayload(data),
     logo |-> IF HasFile(data.logo) THEN data.logo ELSE UndefinedFile,
     logoUrl |-> data.logoUrl]

\* updateOferta: the multipart request handed to fetch
updateOfertaRequest(data, token) ==
    [method |-> "PUT",
     url |-> "/api/ofertas/{id}",
     authorization |-> token,
     oferta |-> updateOfertaPayload(data),
     logo |-> IF HasFile(data.logo) THEN data.logo ELSE UndefinedFile,
     logoUrl |-> Coalesce(data.logoUrl, NullLiteral)]

\* the part of fetch ... response.ok that every function shares: no response
\* throws the transport's failure, a non-2xx response throws "request failed"
Exchange(resp, onOk) ==
    IF resp.type = "network_error" THEN Thrown(FetchTypeError)
    ELSE IF ~Ok(resp) THEN Thrown(RequestFailed(resp))
    ELSE onOk

\* await response.json(): the decoded body, or a SyntaxError
DecodeJson(resp, onDecoded) ==
    IF JsonKind(resp.body) = "invalid" THEN Thrown(JsonSyntaxError) ELSE onDecoded

createOferta(resp) ==
    Catch(Exchange(resp, DecodeJson(resp, Resolved(resp.body))),
          "Error desconocido al crear oferta")

updateOferta(resp) ==
    Catch(Exchange(resp, DecodeJson(resp, Resolved(resp.body))),
          "Error desconocido al actualizar oferta con ID ${data.id}")

\* typeof data !== "object" || data === null: arrays are objects to typeof
fetchOfertaById(resp) ==
    Catch(Exchange(resp, DecodeJson(resp,
              IF JsonKind(resp.body) \notin {"object", "array"}
              THEN Thrown(NotAnObject) ELSE Resolved(resp.body))),
          "Error desconocido al obtener oferta con ID ${id}")

fetchOfertaBySlug(resp) ==
    Catch(Exchange(resp, DecodeJson(resp,
              IF JsonKind(resp.body) \notin {"object", "array"}
              THEN Thrown(NotAnObject) ELSE Resolved(resp.body))),
          "Error desconocido al obtener oferta con slug ${slug}")

\* a fetchOfertas that returns whatever the body decodes to
fetchOfertasNoShapeCheck(resp) ==
    Catch(Exchange(resp, DecodeJson(resp, Resolved(resp.body))),
          "Error desconocido al obtener ofertas")

fetchOfertas(resp) ==
    Catch(Exchange(resp, DecodeJson(resp,
              IF JsonKind(resp.body) # "array"
              THEN Thrown(NotAnArray) ELSE Resolved(resp.body))),
          "Error desconocido al obtener ofertas")

fetchUserOfertas(resp) ==
    Catch(Exchange(resp, DecodeJson(resp,
              IF JsonKind(resp.body) # "array"
              THEN Thrown(NotAnArray) ELSE Resolved(resp.body))),
          "Error desconocido al obtener ofertas del usuario")

\* a deleteOferta with no 404 branch
deleteOfertaNo404(resp) ==
    Catch(Exchange(resp, Resolved("undefined")),
          "Error desconocido al eliminar oferta con ID ${id}")

deleteOferta(resp) ==
    Catch(IF resp.type = "network_error" THEN Thrown(FetchTypeError)
          ELSE IF ~Ok(resp)
               THEN IF resp.status = 404 THEN Resolved("undefined")
                    ELSE Thrown(RequestFailed(resp))
               ELSE Resolved("undefined"),
          "Error desconocido al eliminar oferta con ID ${id}")

enableOfertaAdmin(resp) ==
    Catch(Exchange(resp, Resolved("undefined")),
          "Error desconocido al habilitar oferta con ID ${id}")

\* a deleteOfertaAdmin that tolerates 404 the way deleteOferta does
deleteOfertaAdminTolerant(resp) ==
    deleteOferta(resp)

deleteOfertaAdmin(resp) ==
    Catch(Exchange(resp, Resolved("undefined")),
          "Error desconocido al eliminar oferta con ID ${id} como administrador")

----------------------------------------------------------------------------
(* The backend, as far as the client can tell: it deletes an existing       *)
(* posting and answers 2xx, answers 404 for a posting that does not exist,  *)
(* and may refuse or fail (401, 500, no response) at any time.              *)

BackendFailures == {Response(401, ""), Response(500, "boom"), NetworkFailure}

BackendDeleteResponses(b) ==
    (IF b.exists THEN {Response(204, "")} ELSE {Response(404, "boom")})
        \cup BackendFailures

BackendEnableResponses(b) ==
    (IF b.exists THEN {Response(200, "")} ELSE {Response(404, "boom")})
        \cup BackendFailures

\* the backend's posting after it answered resp to a delete
BackendAfterDelete(b, resp) ==
    IF Ok(resp) THEN [b EXCEPT !.exists = FALSE] ELSE b

\* the backend's posting after it answered resp to habilitar
BackendAfterEnable(b, resp) ==
    IF Ok(resp) THEN [b EXCEPT !.habilitado = TRUE] ELSE b

----------------------------------------------------------------------------
(* ApiSpec: the API client functions applied to inputs drawn from bounded   *)
(* sets.                                                                    *)

CreateInputs ==
    [titulo : {TitleOk}, descripcion : {TextOk}, usuarioId : {OwnerId},
     empresaConsultora : {TextOk}, fechaCierre : {NULL, DayTomorrow},
     formaPostulacion : {"MAIL", "LINK", "OTRA"},
     emailContacto : {NULL, EmptyText, EmailOk},
     linkPostulacion : {NULL, EmptyText, LinkOk},
     categoriaId : {CatOk}, logo : {NullFile, PngLogo}]

UpdateInputs ==
    [id : {OfertaId}, titulo : {TitleOk}, descripcion : {TextOk}, usuarioId : {OwnerId},
     empresaConsultora : {TextOk}, fechaCierre : {NULL},
     formaPostulacion : {"MAIL", "LINK", "OTRA"},
     emailContacto : {NULL, EmptyText, EmailOk},
     linkPostulacion : {NULL, EmptyText, LinkOk},
     categoriaId : {CatOk}, logo : {NullFile},
     logoUrl : {NULL, UNDEFINED, LogoUrlOk}, habilitado : BOOLEAN]

\* what the backend may answer to a create or update request
FormResponses == {Response(200, "{\"id\":\"o1\"}"), Response(500, "boom"), NetworkFailure}

NoRequest == [method |-> "", url |-> ""]
NoData == [id |-> OfertaId]
NoCall == [fn |-> "none", data |-> NoData, request |-> NoRequest, response |-> NetworkFailure,
           outcome |-> Resolved("")]
Call(fn, data, request, resp, outcome) ==
    [fn |-> fn, data |-> data, request |-> request, response |-> resp, outcome |-> outcome]
Get(url) == [method |-> "GET", url |-> url]
AuthRequest(method, url, token) == [method |-> method, url |-> url, authorization |-> token]

InitialBackend == [exists |-> TRUE, habilitado |-> FALSE]

\* the calls ApiSpec makes: one call of a function of its input and of the HTTP
\* exchange, or a run of calls against the backend's posting (delete, enable),
\* whose exchanges are the backend's answers
ApiInputs ==
    {[fn |-> "createOferta", data |-> d, response |-> r] :
         d \in CreateInputs, r \in Responses}
    \cup {[fn |-> "updateOferta", data |-> d, response |-> r] :
         d \in UpdateInputs, r \in Responses}
    \cup {[fn |-> f, data |-> NoData, response |-> r] :
         f \in {"fetchOfertaById", "fetchOfertaBySlug", "fetchOfertas", "fetchUserOfertas"},
         r \in Responses}
    \cup {[fn |-> "backend", data |-> NoData, response |-> NetworkFailure]}

CallCreateOferta ==
    /\ apiInput.fn = "createOferta" /\ apiCall = NoCall
    /\ apiCall' = Call("createOferta", apiInput.data,
                       createOfertaRequest(apiInput.data, Token), apiInput.response,
                       createOferta(apiInput.response))
    /\ UNCHANGED <<apiInput, deleteLog, backend, formVars, schemaVars>>

CallUpdateOferta ==
    /\ apiInput.fn = "updateOferta" /\ apiCall = NoCall
    /\ apiCall' = Call("updateOferta", apiInput.data,
                       updateOfertaRequest(apiInput.data, Token), apiInput.response,
                       updateOferta(apiInput.response))
    /\ UNCHANGED <<apiInput, deleteLog, backend, formVars, schemaVars>>

CallFetchOfertaById ==
    /\ apiInput.fn = "fetchOfertaById" /\ apiCall = NoCall
    /\ apiCall' = Call("fetchOfertaById", NoData, Get("/api/ofertas/{id}"),
                       apiInput.response, fetchOfertaById(apiInput.response))
    /\ UNCHANGED <<apiInput, deleteLog, backend, formVars, schemaVars>>

CallFetchOfertaBySlug ==
    /\ apiInput.fn = "fetchOfertaBySlug" /\ apiCall = NoCall
    /\ apiCall' = Call("fetchOfertaBySlug", NoData, Get("/api/ofertas/detalles/{slug}"),
                       apiInput.response, fetchOfertaBySlug(apiInput.response))
    /\ UNCHANGED <<apiInput, deleteLog, backend, formVars, schemaVars>>

CallFetchOfertas ==
    /\ apiInput.fn = "fetchOfertas" /\ apiCall = NoCall
    /\ apiCall' = Call("fetchOfertas", NoData, Get("/api/ofertas"),
                       apiInput.response, fetchOfertas(apiInput.response))
    /\ UNCHANGED <<apiInput, deleteLog, backend, formVars, schemaVars>>

CallFetchUserOfertas ==
    /\ apiInput.fn = "fetchUserOfertas" /\ apiCall = NoCall
    /\ apiCall' = Call("fetchUserOfertas", NoData,
                       AuthRequest("GET", "/api/ofertas/mis-avisos", Token),
                       apiInput.response, fetchUserOfertas(apiInput.response))
    /\ UNCHANGED <<apiInput, deleteLog, backend, formVars, schemaVars>>

CallDeleteOferta ==
    /\ apiInput.fn = "backend"
    /\ Len(deleteLog) < MaxDeletes
    /\ \E resp \in BackendDeleteResponses(backend) :
           /\ apiCall' = Call("deleteOferta", NoData,
                              AuthRequest("DELETE", "/api/ofertas/{id}", Token), resp,
                              deleteOferta(resp))
           /\ deleteLog' = Append(deleteLog, apiCall')
           /\ backend' = BackendAfterDelete(backend, resp)
    /\ UNCHANGED <<apiInput, formVars, schemaVars>>

CallDeleteOfertaAdmin ==
    /\ apiInput.fn = "backend"
    /\ Len(deleteLog) < MaxDeletes
    /\ \E resp \in BackendDeleteResponses(backend) :
           /\ apiCall' = Call("deleteOfertaAdmin", NoData,
                              AuthRequest("DELETE", "/api/admin/ofertas/{id}", Token), resp,
                              deleteOfertaAdmin(resp))
           /\ deleteLog' = Append(deleteLog, apiCall')
           /\ backend' = BackendAfterDelete(backend, resp)
    /\ UNCHANGED <<apiInput, formVars, schemaVars>>

CallEnableOfertaAdmin ==
    /\ apiInput.fn = "backend"
    /\ \E resp \in BackendEnableResponses(backend) :
           /\ apiCall' = Call("enableOfertaAdmin", NoData,
                              AuthRequest("POST", "/api/admin/ofertas/habilitar/{id}", Token),
                              resp, enableOfertaAdmin(resp))
           /\ backend' = BackendAfterEnable(backend, resp)
    /\ UNCHANGED <<apiInput, deleteLog, formVars, schemaVars>>

ApiNext ==
    \/ CallCreateOferta
    \/ CallUpdateOferta
    \/ CallFetchOfertaById
    \/ CallFetchOfertaBySlug
    \/ CallFetchOfertas
    \/ CallFetchUserOfertas
    \/ CallDeleteOferta
    \/ CallDeleteOfertaAdmin
    \/ CallEnableOfertaAdmin

----------------------------------------------------------------------------
(* The validation schema (zod).  A text is a sequence of characters; an     *)
(* accented letter is one character, written here by its name.              *)

MaxTextLen == 150                  \* .max(150, ...) of titulo and empresaConsultora
MaxDescripcionLen == 5000          \* .max(5000, ...) of descripcion
MaxLogoBytes == 5242880            \* 5 * 1024 * 1024

Lower == {"a", "b", "c", "d", "e", "f", "g", "h", "i", "j", "k", "l", "m",
          "n", "o", "p", "q", "r", "s", "t", "u", "v", "w", "x", "y", "z"}
Upper == {"A", "B", "C", "D", "E", "F", "G", "H", "I", "J", "K", "L", "M",
          "N", "O", "P", "Q", "R", "S", "T", "U", "V", "W", "X", "Y", "Z"}
Digits == {"0", "1", "2", "3", "4", "5", "6", "7", "8", "9"}
Whitespace == {" ", "\t", "\n"}
AccentedVowels == {"a-acute", "e-acute", "i-acute", "o-acute", "u-acute",
                   "A-acute", "E-acute", "I-acute", "O-acute", "U-acute"}
Enie == {"n-tilde", "N-tilde"}

IsText(v) == v # NULL /\ v # UNDEFINED

\* String.prototype.trim
RECURSIVE TrimStart(_)
TrimStart(text) ==
    IF text # << >> /\ Head(text) \in Whitespace THEN TrimStart(Tail(text)) ELSE text
RECURSIVE TrimEnd(_)
TrimEnd(text) ==
    IF text # << >> /\ text[Len(text)] \in Whitespace
    THEN TrimEnd(SubSeq(text, 1, Len(text) - 1)) ELSE text
Trim(text) == TrimEnd(TrimStart(text))

\* !/[^...]/.test(val): no character outside the allowlist
OnlyChars(text, allowed) == \A i \in 1..Len(text) : text[i] \in allowed

\* /[^a-zA-Z0-9\sáéíóúÁÉÍÓÚñÑ./]/ (titulo, both forms)
TituloChars == Lower \cup Upper \cup Digits \cup Whitespace \cup AccentedVowels
                   \cup Enie \cup {".", "/"}
\* /[^a-zA-Z0-9\sáéíóúÁÉÍÓÚ./]/ (empresaConsultora, create form)
EmpresaCharsCreate == Lower \cup Upper \cup Digits \cup Whitespace \cup AccentedVowels
                          \cup {".", "/"}
\* /[^a-zA-Z0-9\sáéíóúÁÉÍÓÚñÑ.,-]/ (empresaConsultora, edit form)
EmpresaCharsEdit == Lower \cup Upper \cup Digits \cup Whitespace \cup AccentedVowels
                        \cup Enie \cup {".", ",", "-"}

\* positions of character c in text
Positions(text, c) == {i \in 1..Len(text) : text[i] = c}

\* zod's email check:
\* /^(?!\.)(?!.*\.\.)([A-Z0-9_'+\-\.]*)[A-Z0-9_+-]@([A-Z0-9][A-Z0-9\-]*\.)+[A-Z]{2,}$/i
IsEmail(text) ==
    LET alnum == Lower \cup Upper \cup Digits
        ats == Positions(text, "@")
    IN  /\ Cardinality(ats) = 1
        /\ LET at == CHOOSE i \in ats : TRUE
               local == SubSeq(text, 1, at - 1)
               domain == SubSeq(text, at + 1, Len(text))
               dots == Positions(domain, ".")
           IN  /\ Len(local) >= 1
               /\ text[1] # "."
               /\ \A i \in 1..(Len(text) - 1) : ~(text[i] = "." /\ text[i + 1] = ".")
               /\ OnlyChars(local, alnum \cup {"_", "'", "+", "-", "."})
               /\ local[Len(local)] \in alnum \cup {"_", "+", "-"}
               /\ dots # {}
               /\ OnlyChars(domain, alnum \cup {"-", "."})
               /\ LET lastDot == CHOOSE i \in dots : \A j \in dots : j <= i
                  IN  /\ Len(domain) - lastDot >= 2
                      /\ OnlyChars(SubSeq(domain, lastDot + 1, Len(domain)), Lower \cup Upper)
               \* every label before the last dot starts with a letter or digit
               /\ domain[1] \in alnum
               /\ \A i \in dots : i < Len(domain) /\ (i + 1 \in dots \/ domain[i + 1] \in alnum)

\* zod's url check: new URL(val) does not throw.  An absolute URL needs a scheme;
\* http and https also need a host.
IsUrl(text) ==
    LET t == Trim(text)
        colons == Positions(t, ":")
    IN  /\ colons # {}
        /\ LET colon == CHOOSE i \in colons : \A j \in colons : i <= j
               scheme == SubSeq(t, 1, colon - 1)
               rest == SubSeq(t, colon + 1, Len(t))
               host == IF Len(rest) >= 2 /\ rest[1] = "/" /\ rest[2] = "/"
                       THEN SubSeq(rest, 3, Len(rest)) ELSE rest
           IN  /\ Len(scheme) >= 1
               /\ scheme[1] \in Lower \cup Upper
               /\ OnlyChars(scheme, Lower \cup Upper \cup Digits \cup {"+", "-", "."})
               /\ (scheme \in {<<"h", "t", "t", "p">>, <<"h", "t", "t", "p", "s">>}
                      => (Len(host) >= 1 /\ host[1] \notin {"/", ":", "?", "#"}))

\* Dates.  An <input type="date"> value names a day; new Date(value) is that day's
\* first instant (UTC).  Instants count TicksPerDay ticks a day.
TicksPerDay == 2
DayOf(dateText) ==
    CASE dateText = <<"d", "0">> -> 0
      [] dateText = <<"d", "1">> -> 1
      [] dateText = <<"d", "2">> -> 2
      [] OTHER -> 0
\* new Date(dateText).getTime()
DateValue(dateText) == DayOf(dateText) * TicksPerDay
Today == DayOf(DayToday)
\* the instants of today at which a validation may run
Clock == {Today * TicksPerDay + k : k \in 0..(TicksPerDay - 1)}

----------------------------------------------------------------------------
(* formSchema.  An issue names the field it is reported on and its message; *)
(* Validate lists the issues in the order zod raises them: the fields in    *)
(* the order of the object, then the three object-level refinements.  A     *)
(* failed check of a string marks it dirty and does not stop the later      *)
(* checks.                                                                  *)

Issue(path, message) == [path |-> path, message |-> message]
IssueIf(failed, path, message) == IF failed THEN <<Issue(path, message)>> ELSE << >>

\* a titulo schema without the not-blank refinement
TituloIssuesNoBlankCheck(flow, v) ==
    LET t == Trim(v)
    IN  IssueIf(Len(v) < 1, "titulo", "El titulo es obligatorio")
        \o IssueIf(Len(v) > MaxTextLen, "titulo",
                   "El titulo no puede superar los 150 caracteres")
        \o IssueIf(~OnlyChars(t, TituloChars), "titulo",
                   IF flow = "create"
                   THEN "El titulo no puede contener caracteres especiales raros (excepto /)"
                   ELSE "El titulo no puede contener caracteres especiales raros")

\* titulo: .min(1).max(150).trim().refine(not blank).refine(allowlist)
TituloIssues(flow, v) ==
    LET t == Trim(v)
    IN  IssueIf(Len(v) < 1, "titulo", "El titulo es obligatorio")
        \o IssueIf(Len(v) > MaxTextLen, "titulo",
                   "El titulo no puede superar los 150 caracteres")
        \o IssueIf(~(Len(t) > 0 /\ Len(Trim(t)) > 0), "titulo",
                   "El titulo no puede ser solo espacios")
        \o IssueIf(~OnlyChars(t, TituloChars), "titulo",
                   IF flow = "create"
                   THEN "El titulo no puede contener caracteres especiales raros (excepto /)"
                   ELSE "El titulo no puede contener caracteres especiales raros")

\* descripcion: .min(1).max(5000).trim().refine(not blank)
DescripcionIssues(v) ==
    LET t == Trim(v)
    IN  IssueIf(Len(v) < 1, "descripcion", "La descripcion es obligatoria")
        \o IssueIf(Len(v) > MaxDescripcionLen, "descripcion",
                   "La descripcion no puede superar los 5000 caracteres")
        \o IssueIf(~(Len(t) > 0 /\ Len(Trim(t)) > 0), "descripcion",
                   "La descripcion no puede ser solo espacios")

\* empresaConsultora: .min(1).max(150).trim().refine(not blank).refine(allowlist)
EmpresaIssues(flow, v) ==
    LET t == Trim(v)
    IN  IssueIf(Len(v) < 1, "empresaConsultora", "El nombre de la empresa es obligatorio")
        \o IssueIf(Len(v) > MaxTextLen, "empresaConsultora",
                   "El nombre de la empresa no puede superar los 150 caracteres")
        \o IssueIf(~(Len(t) > 0 /\ Len(Trim(t)) > 0), "empresaConsultora",
                   "La empresa no puede ser solo espacios")
        \o IssueIf(~OnlyChars(t, IF flow = "create" THEN EmpresaCharsCreate
                                                    ELSE EmpresaCharsEdit),
                   "empresaConsultora",
                   "La empresa no puede contener caracteres especiales raros")

\* categoria: z.string().min(1, ...)
CategoriaIssues(v) ==
    IssueIf(Len(v) < 1, "categoria", "Debes seleccionar una categoria")

\* formaPostulacion: z.enum(["MAIL", "LINK"])
FormaPostulacionIssues(v) ==
    IssueIf(v \notin {"MAIL", "LINK"}, "formaPostulacion",
            "Debes seleccionar una forma de postulacion")

\* emailContacto: z.string().email(...).optional().nullable()
EmailContactoIssues(v) ==
    IssueIf(IsText(v) /\ ~IsEmail(v), "emailContacto", "Debes ingresar un email valido")

\* linkPostulacion: z.string().url(...).trim().refine(...).optional().nullable()
LinkPostulacionIssues(v) ==
    IF ~IsText(v) THEN << >>
    ELSE LET t == Trim(v)
         IN  IssueIf(~IsUrl(v), "linkPostulacion",
                     "Debes ingresar una URL valida (ej: https://example.com)")
             \o IssueIf(~(~Truthy(t) \/ (Len(t) > 0 /\ Len(Trim(t)) > 0)),
                        "linkPostulacion", "El link no puede ser solo espacios")

\* a logo schema without the size refinement
LogoIssuesNoSizeCheck(f) ==
    IssueIf(~(~HasFile(f) \/ f.type \in {"image/png", "image/jpeg", "image/jpg"}),
            "logo", "Solo se permiten imagenes en formato PNG, JPEG o JPG")

\* logo: z.instanceof(File).optional().refine(size).refine(type)
LogoIssues(f) ==
    IssueIf(~(~HasFile(f) \/ f.size <= MaxLogoBytes), "logo",
            "El archivo no puede superar los 5MB")
    \o IssueIf(~(~HasFile(f) \/ f.type \in {"image/png", "image/jpeg", "image/jpg"}),
               "logo", "Solo se permiten imagenes en formato PNG, JPEG o JPG")

\* .refine: MAIL needs a non-blank emailContacto
EmailRefineIssues(v) ==
    IssueIf(v.formaPostulacion = "MAIL"
                /\ (~Truthy(v.emailContacto) \/ Trim(v.emailContacto) = EmptyText),
            "emailContacto", "Debes ingresar un email valido para postulacion por email")

\* .refine: LINK needs a non-blank linkPostulacion (the value zod has trimmed)
LinkRefineIssues(v) ==
    LET link == IF IsText(v.linkPostulacion) THEN Trim(v.linkPostulacion)
                ELSE v.linkPostulacion
    IN  IssueIf(v.formaPostulacion = "LINK" /\ (~Truthy(link) \/ Trim(link) = EmptyText),
                "linkPostulacion",
                "Debes ingresar una URL valida para postulacion por enlace")

\* .refine: data.fechaCierre && new Date(data.fechaCierre) < new Date()
FechaCierreRefineIssues(v, now) ==
    IssueIf(Truthy(v.fechaCierre) /\ DateValue(v.fechaCierre) < now,
            "fechaCierre", "La fecha de cierre no puede ser anterior a hoy")

\* zodResolver(formSchema) on the form's values at instant now
Validate(flow, v, now) ==
    TituloIssues(flow, v.titulo)
    \o DescripcionIssues(v.descripcion)
    \o EmpresaIssues(flow, v.empresaConsultora)
    \o CategoriaIssues(v.categoria)
    \o FormaPostulacionIssues(v.formaPostulacion)
    \o EmailContactoIssues(v.emailContacto)
    \o LinkPostulacionIssues(v.linkPostulacion)
    \o LogoIssues(v.logo)
    \o EmailRefineIssues(v)
    \o LinkRefineIssues(v)
    \o FechaCierreRefineIssues(v, now)

\* the data zod hands to onSubmit: the values with the .trim() transforms applied
Parsed(v) ==
    [v EXCEPT !.titulo = Trim(v.titulo),
              !.descripcion = Trim(v.descripcion),
              !.empresaConsultora = Trim(v.empresaConsultora),
              !.linkPostulacion = IF IsText(v.linkPostulacion)
                                  THEN Trim(v.linkPostulacion) ELSE v.linkPostulacion]

----------------------------------------------------------------------------
(* The form pages.  One form instance is mounted: the create form           *)
(* (PublicarEmpleoPage) or the edit form (EditForm).                        *)

NavDelayMs == 5000                 \* setTimeout(..., 5000)

\* useSession(): data is null until the status is "authenticated"
Loading == [status |-> "loading", userId |-> "", token |-> ""]
Unauthenticated == [status |-> "unauthenticated", userId |-> "", token |-> ""]
Authenticated(u) == [status |-> "authenticated", userId |-> u, token |-> Token]
Users == {OwnerId, OtherUserId}

\* session?.user?.id || ""
SessionUserId ==
    IF session.status = "authenticated" /\ session.userId # "" THEN session.userId ELSE ""
\* session?.backendToken || ""
SessionToken ==
    IF session.status = "authenticated" /\ session.token # "" THEN session.token ELSE ""

\* the page's guards before it renders the form: the create page returns null
\* when unauthenticated; the edit page also shows the loader while loading
FormRendered ==
    IF page = "create" THEN session.status # "unauthenticated"
    ELSE session.status = "authenticated"

FormRoute(p) == IF p = "create" THEN "/nuevo-aviso" ELSE "/editar-aviso/{id}"
\* where a successful submission navigates to
AfterSuccessRoute(p) == IF p = "create" THEN "/" ELSE "/mis-avisos"
Mounted == route = FormRoute(page) /\ FormRendered

\* the postings the backend may hold for OfertaId, as fetchOfertaById returns them
StoredOfertas(habilitado) ==
    {[id |-> OfertaId, titulo |-> TitleOk, descripcion |-> TextOk,
      empresaConsultora |-> TextOk, categoria |-> CatOk,
      formaPostulacion |-> f,
      contactoPostulacion |-> IF f = "MAIL" THEN EmailOk ELSE LinkOk,
      fechaCierre |-> NULL, logoUrl |-> LogoUrlOk, usuarioId |-> OwnerId,
      habilitado |-> habilitado] : f \in {"MAIL", "LINK"}}

\* the create form's useForm defaultValues
CreateDefaults ==
    [titulo |-> EmptyText, descripcion |-> EmptyText, empresaConsultora |-> EmptyText,
     categoria |-> EmptyText, formaPostulacion |-> "MAIL", emailContacto |-> NULL,
     linkPostulacion |-> NULL, fechaCierre |-> NULL, logo |-> UndefinedFile]

\* the edit form's useForm defaultValues
EditDefaults(o) ==
    [titulo |-> OrElse(o.titulo, EmptyText),
     descripcion |-> OrElse(o.descripcion, EmptyText),
     empresaConsultora |-> OrElse(o.empresaConsultora, EmptyText),
     categoria |-> OrElse(o.categoria, EmptyText),
     formaPostulacion |-> IF o.formaPostulacion = "" THEN "MAIL" ELSE o.formaPostulacion,
     emailContacto |-> IF o.formaPostulacion = "MAIL"
                       THEN OrElse(o.contactoPostulacion, NULL) ELSE NULL,
     linkPostulacion |-> IF o.formaPostulacion = "LINK"
                         THEN OrElse(o.contactoPostulacion, NULL) ELSE NULL,
     fechaCierre |-> IF Truthy(o.fechaCierre) THEN o.fechaCierre ELSE NULL,
     logo |-> UndefinedFile]

Idle == [status |-> "idle", error |-> NoError]

\* what the user may type into the inputs
TextFields == {"titulo", "descripcion", "empresaConsultora"}
TextSamples == {EmptyText, TextOk}
Categorias == {CatOk}
EmailSamples == {EmailOk}
LinkSamples == {LinkOk}
FechaSamples == {DayTomorrow}

----------------------------------------------------------------------------
(* SchemaSpec: formSchema applied to field values drawn from bounded sets.   *)

\* a text of n times the character c
Repeat(c, n) == [i \in 1..n |-> c]

TituloSamples ==
    {EmptyText, TitleOk, Repeat("a", 150), Repeat("a", 151), Repeat(" ", 1),
     Repeat(" ", 150), <<"a", "&", "b">>}
EmpresaSamples ==
    {TextOk, <<"A", "/", "B">>, <<"A", ",", "B">>, <<"A", "-", "B">>,
     <<"A", "n-tilde", "o">>, <<"A", "&", "B">>}
LogoSamples == {UndefinedFile, File(5242880, "image/png"), File(5242881, "image/png")}

SchemaInputs ==
    [flow : {"create", "edit"},
     now : Clock,
     values : [titulo : TituloSamples, descripcion : {TextOk},
               empresaConsultora : EmpresaSamples, categoria : {CatOk},
               formaPostulacion : {"MAIL", "LINK"},
               emailContacto : {NULL, EmptyText, EmailOk, EmailBad},
               linkPostulacion : {NULL, EmptyText, LinkOk},
               fechaCierre : {NULL, DayYesterday, DayToday, DayTomorrow},
               logo : LogoSamples]]

Paths == {"titulo", "descripcion", "empresaConsultora", "categoria", "formaPostulacion",
          "emailContacto", "linkPostulacion", "fechaCierre", "logo"}

\* zodResolver: the error of a field is the first issue raised on its path
FieldErrors(issues) ==
    [path \in Paths |->
        LET at == {i \in 1..Len(issues) : issues[i].path = path}
        IN  IF at = {} THEN ""
            ELSE issues[CHOOSE i \in at : \A j \in at : i <= j].message]

NoFieldErrors == [path \in Paths |-> ""]
NoSchemaInput == [flow |-> "none", now |-> 0, values |-> CreateDefaults]
NoSchemaResult == [done |-> FALSE, issues |-> << >>, errors |-> NoFieldErrors]

Init ==
    /\ schemaInput = NoSchemaInput
    /\ schemaResult = NoSchemaResult
    /\ apiInput = [fn |-> "none", data |-> NoData, response |-> NetworkFailure]
    /\ apiCall = NoCall
    /\ deleteLog = << >>
    /\ session = Authenticated(OwnerId)
    /\ invalidations = << >>
    /\ page \in {"create", "edit"}
    /\ backend \in [exists : {TRUE}, habilitado : IF page = "edit" THEN BOOLEAN ELSE {FALSE}]
    /\ route = FormRoute(page)
    /\ oferta \in StoredOfertas(backend.habilitado)
    /\ page = "create" => oferta.formaPostulacion = "MAIL"
    /\ form = IF page = "create" THEN CreateDefaults ELSE EditDefaults(oferta)
    /\ lastSubmit = "none"
    /\ existingLogoUrl = IF page = "edit" THEN OrElse(oferta.logoUrl, NULL) ELSE NULL
    /\ isSubmitting = FALSE
    /\ submitError = NoMsg
    /\ submitSuccess = ""
    /\ mutation = Idle
    /\ requests = << >>
    /\ timers = << >>

ApiInit ==
    /\ schemaInput = NoSchemaInput
    /\ schemaResult = NoSchemaResult
    /\ apiInput \in ApiInputs
    /\ apiCall = NoCall
    /\ deleteLog = << >>
    /\ backend = InitialBackend
    /\ session = Authenticated(OwnerId)
    /\ invalidations = << >>
    /\ page = "create"
    /\ route = FormRoute(page)
    /\ oferta \in StoredOfertas(FALSE)
    /\ oferta.formaPostulacion = "MAIL"
    /\ form = CreateDefaults
    /\ lastSubmit = "none"
    /\ existingLogoUrl = NULL
    /\ isSubmitting = FALSE
    /\ submitError = NoMsg
    /\ submitSuccess = ""
    /\ mutation = Idle
    /\ requests = << >>
    /\ timers = << >>

ApiSpec == ApiInit /\ [][ApiNext]_vars

----------------------------------------------------------------------------
(* Spec: the handlers of the mounted form, the backend's answers, the        *)
(* administrator and the timers.                                             *)

\* PublicarEmpleoPage.onSubmit: createData
CreateData(data) ==
    [titulo |-> data.titulo,
     descripcion |-> data.descripcion,
     usuarioId |-> SessionUserId,
     empresaConsultora |-> data.empresaConsultora,
     fechaCierre |-> IF Truthy(data.fechaCierre) THEN IsoString(data.fechaCierre) ELSE NULL,
     formaPostulacion |-> data.formaPostulacion,
     emailContacto |-> IF data.formaPostulacion = "MAIL"
                       THEN Coalesce(data.emailContacto, NULL) ELSE NULL,
     linkPostulacion |-> IF data.formaPostulacion = "LINK"
                         THEN Coalesce(data.linkPostulacion, NULL) ELSE NULL,
     categoriaId |-> data.categoria,
     logo |-> IF HasFile(data.logo) THEN data.logo ELSE NullFile]

\* EditForm.onSubmit: updateData
UpdateData(data, logoUrl, o) ==
    [id |-> OfertaId,
     titulo |-> data.titulo,
     descripcion |-> data.descripcion,
     usuarioId |-> SessionUserId,
     empresaConsultora |-> data.empresaConsultora,
     fechaCierre |-> IF Truthy(data.fechaCierre) THEN data.fechaCierre ELSE NULL,
     formaPostulacion |-> data.formaPostulacion,
     emailContacto |-> IF data.formaPostulacion = "MAIL"
                       THEN OrElse(data.emailContacto, NULL) ELSE NULL,
     linkPostulacion |-> IF data.formaPostulacion = "LINK"
                         THEN OrElse(data.linkPostulacion, NULL) ELSE NULL,
     categoriaId |-> data.categoria,
     logo |-> IF HasFile(data.logo) THEN data.logo ELSE NullFile,
     logoUrl |-> logoUrl,
     habilitado |-> o.habilitado]

\* the request onSubmit hands to fetch through the mutation
SubmitRequest(flow, data, logoUrl, o) ==
    IF flow = "create"
    THEN createOfertaRequest(CreateData(data), SessionToken)
    ELSE updateOfertaRequest(UpdateData(data, logoUrl, o), SessionToken)

\* a resolver that lets every form state through
ResolverSkipped(flow, v, now) == << >>

\* useForm({ resolver: zodResolver(formSchema) }): what handleSubmit validates with
ResolverIssues(flow, v, now) == Validate(flow, v, now)

\* a submit control that is never disabled
SubmitAlwaysEnabled == Mounted

\* <Button type="submit" disabled={isSubmitting}>
SubmitEnabled == Mounted /\ ~isSubmitting

Timer(flow) == [delay |-> NavDelayMs, target |-> AfterSuccessRoute(flow)]

\* an onSuccess that schedules nothing
ScheduleNothing(ts, flow) == ts

\* setTimeout(() => router.push(...), 5000)
ScheduleNavigation(ts, flow) == Append(ts, Timer(flow))

\* an onSuccess that leaves the query cache alone
InvalidatesNothing(flow) == << >>

\* onSuccess: queryClient.invalidateQueries({ queryKey: ... }), in the order called
InvalidatedOnSuccess(flow) ==
    IF flow = "create" THEN <<"jobPosts">> ELSE <<"jobPost/{id}", "userJobPosts">>

\* the success message each form shows
SuccessMessage(flow) ==
    IF flow = "create" THEN "Oferta enviada con exito" ELSE "Oferta actualizada con exito"

\* a text input that also clears the failure message
ChangeTextClearingError ==
    /\ Mounted
    /\ \E f \in TextFields, v \in TextSamples :
           /\ form[f] # v
           /\ form' = [form EXCEPT ![f] = v]
    /\ submitError' = NoMsg
    /\ UNCHANGED <<schemaVars, apiVars, backend, session, invalidations, page, route, oferta, lastSubmit, existingLogoUrl,
                   isSubmitting, submitSuccess, mutation, requests, timers>>

\* titulo, descripcion, empresaConsultora: {...field}
ChangeText ==
    /\ Mounted
    /\ \E f \in TextFields, v \in TextSamples :
           /\ form[f] # v
           /\ form' = [form EXCEPT ![f] = v]
    /\ UNCHANGED <<schemaVars, apiVars, backend, session, invalidations, page, route, oferta, lastSubmit, existingLogoUrl,
                   isSubmitting, submitError, submitSuccess, mutation, requests, timers>>

\* categoria: <Select onValueChange={field.onChange}>
ChangeCategoria ==
    /\ Mounted
    /\ \E v \in Categorias :
           /\ form.categoria # v
           /\ form' = [form EXCEPT !.categoria = v]
    /\ UNCHANGED <<schemaVars, apiVars, backend, session, invalidations, page, route, oferta, lastSubmit, existingLogoUrl,
                   isSubmitting, submitError, submitSuccess, mutation, requests, timers>>

\* a channel switch that leaves both contact fields as they are in either form
ChangeFormaPostulacionKeeping ==
    /\ Mounted
    /\ \E v \in {"MAIL", "LINK"} :
           /\ form.formaPostulacion # v
           /\ form' = [form EXCEPT !.formaPostulacion = v]
    /\ UNCHANGED <<schemaVars, apiVars, backend, session, invalidations, page, route, oferta, lastSubmit, existingLogoUrl,
                   isSubmitting, submitError, submitSuccess, mutation, requests, timers>>

\* formaPostulacion: the create form only changes the field; the edit form also
\* sets the other channel's field to null
ChangeFormaPostulacion ==
    /\ Mounted
    /\ \E v \in {"MAIL", "LINK"} :
           /\ form.formaPostulacion # v
           /\ form' = IF page = "create"
                      THEN [form EXCEPT !.formaPostulacion = v]
                      ELSE IF v = "MAIL"
                           THEN [form EXCEPT !.formaPostulacion = v, !.linkPostulacion = NULL]
                           ELSE [form EXCEPT !.formaPostulacion = v, !.emailContacto = NULL]
    /\ UNCHANGED <<schemaVars, apiVars, backend, session, invalidations, page, route, oferta, lastSubmit, existingLogoUrl,
                   isSubmitting, submitError, submitSuccess, mutation, requests, timers>>

\* emailContacto, rendered while formaPostulacion is MAIL: the create form stores
\* what was typed, the edit form stores e.target.value || null
ChangeEmailContacto ==
    /\ Mounted
    /\ form.formaPostulacion = "MAIL"
    /\ \E typed \in EmailSamples \cup {EmptyText} :
           LET v == IF page = "create" THEN typed ELSE OrElse(typed, NULL)
           IN  /\ form.emailContacto # v
               /\ form' = [form EXCEPT !.emailContacto = v]
    /\ UNCHANGED <<schemaVars, apiVars, backend, session, invalidations, page, route, oferta, lastSubmit, existingLogoUrl,
                   isSubmitting, submitError, submitSuccess, mutation, requests, timers>>

\* linkPostulacion, rendered while formaPostulacion is LINK
ChangeLinkPostulacion ==
    /\ Mounted
    /\ form.formaPostulacion = "LINK"
    /\ \E typed \in LinkSamples \cup {EmptyText} :
           LET v == IF page = "create" THEN typed ELSE OrElse(typed, NULL)
           IN  /\ form.linkPostulacion # v
               /\ form' = [form EXCEPT !.linkPostulacion = v]
    /\ UNCHANGED <<schemaVars, apiVars, backend, session, invalidations, page, route, oferta, lastSubmit, existingLogoUrl,
                   isSubmitting, submitError, submitSuccess, mutation, requests, timers>>

\* fechaCierre: the edit form stores e.target.value || null
ChangeFechaCierre ==
    /\ Mounted
    /\ \E typed \in FechaSamples \cup {EmptyText} :
           LET v == IF page = "create" THEN typed ELSE OrElse(typed, NULL)
           IN  /\ form.fechaCierre # v
               /\ form' = [form EXCEPT !.fechaCierre = v]
    /\ UNCHANGED <<schemaVars, apiVars, backend, session, invalidations, page, route, oferta, lastSubmit, existingLogoUrl,
                   isSubmitting, submitError, submitSuccess, mutation, requests, timers>>

\* logo: the file input's onChange(e.target.files?.[0]), and the X next to the
\* chosen file's name: onChange(undefined)
ChangeLogo ==
    /\ Mounted
    /\ \E f \in LogoSamples :
           /\ form.logo # f
           /\ form' = [form EXCEPT !.logo = f]
    /\ UNCHANGED <<schemaVars, apiVars, backend, session, invalidations, page, route, oferta, lastSubmit,
                   existingLogoUrl, isSubmitting, submitError, submitSuccess, mutation,
                   requests, timers>>

\* the X next to "Logo actual": setExistingLogoUrl(null)
RemoveExistingLogo ==
    /\ Mounted
    /\ page = "edit"
    /\ Truthy(existingLogoUrl) /\ ~HasFile(form.logo)
    /\ existingLogoUrl' = NULL
    /\ UNCHANGED <<schemaVars, apiVars, backend, session, invalidations, page, route, oferta, form, lastSubmit,
                   isSubmitting, submitError, submitSuccess, mutation, requests, timers>>

\* form.handleSubmit(onSubmit): the resolver validates the values; with issues
\* onSubmit is not called; without, onSubmit runs up to the fetch of the request
Submit ==
    /\ SubmitEnabled
    /\ \E now \in Clock :
           \/ /\ ResolverIssues(page, form, now) # << >>
              /\ lastSubmit' = "invalid"
              /\ UNCHANGED <<submitError, submitSuccess, isSubmitting, mutation, requests>>
           \/ /\ ResolverIssues(page, form, now) = << >>
              /\ Len(requests) < MaxInFlight
              /\ Len(requests) + Len(timers) < MaxTimers
              /\ lastSubmit' = "valid"
              /\ submitError' = NoMsg
              /\ submitSuccess' = ""
              /\ isSubmitting' = TRUE
              /\ mutation' = [status |-> "pending", error |-> NoError]
              /\ requests' = Append(requests,
                                    SubmitRequest(page, Parsed(form), existingLogoUrl, oferta))
    /\ UNCHANGED <<schemaVars, apiVars, backend, session, invalidations, page, route, oferta, form, existingLogoUrl, timers>>

\* a settling whose reset of isSubmitting follows the await instead of standing
\* in a finally block: a rejected call skips it
SettleWithoutFinally ==
    /\ requests # << >>
    /\ \E i \in 1..Len(requests), resp \in FormResponses :
           LET outcome == IF page = "create" THEN createOferta(resp) ELSE updateOferta(resp)
           IN  /\ requests' = SubSeq(requests, 1, i - 1) \o SubSeq(requests, i + 1, Len(requests))
               /\ \/ /\ outcome.state = "resolved"
                     /\ mutation' = [status |-> "success", error |-> NoError]
                     /\ submitSuccess' = SuccessMessage(page)
                     /\ form' = IF page = "create" THEN CreateDefaults ELSE form
                     /\ timers' = ScheduleNavigation(timers, page)
                     /\ invalidations' = invalidations \o InvalidatedOnSuccess(page)
                     /\ isSubmitting' = FALSE
                     /\ UNCHANGED submitError
                  \/ /\ outcome.state = "rejected"
                     /\ mutation' = [status |-> "error", error |-> outcome.error]
                     /\ submitError' = IF page = "edit" THEN outcome.error.message
                                       ELSE submitError
                     /\ UNCHANGED <<submitSuccess, form, timers, invalidations, isSubmitting>>
    /\ UNCHANGED <<schemaVars, apiVars, backend, session, page, route, oferta, lastSubmit,
                   existingLogoUrl>>

\* the response to a request in flight arrives: createOferta / updateOferta settles,
\* the mutation runs onSuccess or onError, and onSubmit's finally runs
Settle ==
    /\ requests # << >>
    /\ \E i \in 1..Len(requests), resp \in FormResponses :
           LET outcome == IF page = "create" THEN createOferta(resp) ELSE updateOferta(resp)
           IN  /\ requests' = SubSeq(requests, 1, i - 1) \o SubSeq(requests, i + 1, Len(requests))
               /\ \/ /\ outcome.state = "resolved"
                     /\ mutation' = [status |-> "success", error |-> NoError]
                     /\ submitSuccess' = SuccessMessage(page)
                     /\ form' = IF page = "create" THEN CreateDefaults ELSE form
                     /\ timers' = ScheduleNavigation(timers, page)
                     /\ invalidations' = invalidations \o InvalidatedOnSuccess(page)
                     /\ UNCHANGED submitError
                  \/ /\ outcome.state = "rejected"
                     /\ mutation' = [status |-> "error", error |-> outcome.error]
                     /\ submitError' = IF page = "edit" THEN outcome.error.message
                                       ELSE submitError
                     /\ UNCHANGED <<submitSuccess, form, timers, invalidations>>
    /\ isSubmitting' = FALSE
    /\ UNCHANGED <<schemaVars, apiVars, backend, session, page, route, oferta, lastSubmit,
                   existingLogoUrl>>

\* a pending timer fires: router.push(target), whether or not the form is still shown
TimerFire ==
    /\ timers # << >>
    /\ route' = Head(timers).target
    /\ timers' = Tail(timers)
    /\ UNCHANGED <<schemaVars, apiVars, backend, session, invalidations, page, oferta, form, lastSubmit, existingLogoUrl,
                   isSubmitting, submitError, submitSuccess, mutation, requests>>

\* handleCloseSuccess: the "Cerrar" button of the success overlay
CloseSuccess ==
    /\ Mounted
    /\ submitSuccess # ""
    /\ submitSuccess' = ""
    /\ route' = AfterSuccessRoute(page)
    /\ UNCHANGED <<schemaVars, apiVars, backend, session, invalidations, page, oferta, form, lastSubmit, existingLogoUrl,
                   isSubmitting, submitError, mutation, requests, timers>>

\* an administrator approves the posting: enableOfertaAdmin against the backend
AdminEnable ==
    /\ page = "edit"
    /\ ~backend.habilitado
    /\ \E resp \in BackendEnableResponses(backend) :
           /\ enableOfertaAdmin(resp).state = "resolved"
           /\ backend' = BackendAfterEnable(backend, resp)
    /\ UNCHANGED <<schemaVars, apiVars, formVars>>

\* useOfertaById refetches and the edit form is rendered with the fresh posting
RefetchOferta ==
    /\ Mounted
    /\ page = "edit"
    /\ oferta.habilitado # backend.habilitado
    /\ oferta' = [oferta EXCEPT !.habilitado = backend.habilitado]
    /\ UNCHANGED <<schemaVars, apiVars, backend, session, invalidations, page, route, form, lastSubmit, existingLogoUrl,
                   isSubmitting, submitError, submitSuccess, mutation, requests, timers>>

Next ==
    \/ ChangeText
    \/ ChangeCategoria
    \/ ChangeFormaPostulacion
    \/ ChangeEmailContacto
    \/ ChangeLinkPostulacion
    \/ ChangeFechaCierre
    \/ ChangeLogo
    \/ RemoveExistingLogo
    \/ Submit
    \/ Settle
    \/ TimerFire
    \/ CloseSuccess
    \/ AdminEnable
    \/ RefetchOferta

Spec == Init /\ [][Next]_vars

\* the browser runs a pending timer's callback
FairSpec == Spec /\ WF_vars(TimerFire)

----------------------------------------------------------------------------
(* SchemaSpec: the resolver of either form applied to the drawn values.     *)

SchemaInit ==
    /\ schemaInput \in SchemaInputs
    /\ schemaResult = NoSchemaResult
    /\ apiInput = [fn |-> "none", data |-> NoData, response |-> NetworkFailure]
    /\ apiCall = NoCall
    /\ deleteLog = << >>
    /\ backend = InitialBackend
    /\ session = Authenticated(OwnerId)
    /\ invalidations = << >>
    /\ page = schemaInput.flow
    /\ route = FormRoute(page)
    /\ oferta \in StoredOfertas(FALSE)
    /\ oferta.formaPostulacion = "MAIL"
    /\ form = IF page = "create" THEN CreateDefaults ELSE EditDefaults(oferta)
    /\ lastSubmit = "none"
    /\ existingLogoUrl = IF page = "edit" THEN OrElse(oferta.logoUrl, NULL) ELSE NULL
    /\ isSubmitting = FALSE
    /\ submitError = NoMsg
    /\ submitSuccess = ""
    /\ mutation = Idle
    /\ requests = << >>
    /\ timers = << >>

\* what the resolver of a form reports on the input
Resolve(flow, input) ==
    LET issues == ResolverIssues(flow, input.values, input.now)
    IN  [done |-> TRUE, issues |-> issues, errors |-> FieldErrors(issues)]

\* the create form's resolver runs on the values
ResolveCreate ==
    /\ schemaInput.flow = "create"
    /\ ~schemaResult.done
    /\ schemaResult' = Resolve("create", schemaInput)
    /\ UNCHANGED <<schemaInput, apiVars, backend, formVars>>

\* the edit form's resolver runs on the values
ResolveEdit ==
    /\ schemaInput.flow = "edit"
    /\ ~schemaResult.done
    /\ schemaResult' = Resolve("edit", schemaInput)
    /\ UNCHANGED <<schemaInput, apiVars, backend, formVars>>

SchemaNext ==
    \/ ResolveCreate
    \/ ResolveEdit

SchemaSpec == SchemaInit /\ [][SchemaNext]_vars

----------------------------------------------------------------------------
(* SessionSpec: one form page while the session resolves, belongs to the    *)
(* owner or to another user, and ends.  The user fills in the fields the    *)
(* schema requires, and submits.                                            *)

SessionInit ==
    /\ schemaInput = NoSchemaInput
    /\ schemaResult = NoSchemaResult
    /\ apiInput = [fn |-> "none", data |-> NoData, response |-> NetworkFailure]
    /\ apiCall = NoCall
    /\ deleteLog = << >>
    /\ backend = InitialBackend
    /\ session \in {Loading} \cup {Authenticated(u) : u \in Users}
    /\ invalidations = << >>
    /\ page \in {"create", "edit"}
    /\ route = FormRoute(page)
    /\ oferta \in StoredOfertas(backend.habilitado)
    /\ oferta.formaPostulacion = "MAIL"
    /\ form = IF page = "create" THEN CreateDefaults ELSE EditDefaults(oferta)
    /\ lastSubmit = "none"
    /\ existingLogoUrl = IF page = "edit" THEN OrElse(oferta.logoUrl, NULL) ELSE NULL
    /\ isSubmitting = FALSE
    /\ submitError = NoMsg
    /\ submitSuccess = ""
    /\ mutation = Idle
    /\ requests = << >>
    /\ timers = << >>

\* if (status === "unauthenticated") { router.push("/login"); return null; }
RouteOnRender(s) ==
    IF s.status = "unauthenticated" /\ route = FormRoute(page) THEN "/login" ELSE route

\* useSession() leaves "loading": the page is rendered with the resolved session
SessionResolves ==
    /\ session.status = "loading"
    /\ \E s \in {Authenticated(u) : u \in Users} \cup {Unauthenticated} :
           /\ session' = s
           /\ route' = RouteOnRender(s)
    /\ UNCHANGED <<schemaVars, apiVars, backend, invalidations, page, oferta, form, lastSubmit,
                   existingLogoUrl, isSubmitting, submitError, submitSuccess, mutation,
                   requests, timers>>

\* the session ends (sign-out, expiry): the page is rendered unauthenticated
SessionEnds ==
    /\ session.status = "authenticated"
    /\ session' = Unauthenticated
    /\ route' = RouteOnRender(Unauthenticated)
    /\ UNCHANGED <<schemaVars, apiVars, backend, invalidations, page, oferta, form, lastSubmit,
                   existingLogoUrl, isSubmitting, submitError, submitSuccess, mutation,
                   requests, timers>>

SessionNext ==
    \/ SessionResolves
    \/ SessionEnds
    \/ ChangeText
    \/ ChangeCategoria
    \/ ChangeEmailContacto
    \/ RemoveExistingLogo
    \/ Submit
    \/ Settle
    \/ TimerFire
    \/ CloseSuccess

SessionSpec == SessionInit /\ [][SessionNext]_vars

----------------------------------------------------------------------------
(* Claims about the API client, checked under ApiSpec.                      *)

\* C1: in every createOferta and updateOferta call the "oferta" payload has
\* linkPostulacion null when formaPostulacion is MAIL and emailContacto null when
\* it is LINK, so it never carries both contact fields non-null.
C1_PayloadNullsUnusedContact ==
    apiCall.fn \in {"createOferta", "updateOferta"} =>
        LET o == apiCall.request.oferta
        IN  /\ o.formaPostulacion = "MAIL" => o.linkPostulacion = NULL
            /\ o.formaPostulacion = "LINK" => o.emailContacto = NULL
            /\ ~(o.emailContacto # NULL /\ o.linkPostulacion # NULL)

\* a createOferta call with MAIL whose input carried both an email and a link
C1_Witness ==
    /\ apiCall.fn = "createOferta"
    /\ apiCall.data.formaPostulacion = "MAIL"
    /\ apiCall.data.emailContacto = EmailOk
    /\ apiCall.data.linkPostulacion = LinkOk
    /\ apiCall.request.oferta.emailContacto = EmailOk
    /\ apiCall.request.oferta.linkPostulacion = NULL

\* C8: every deleteOferta call that the backend answers with 2xx (it deleted the
\* posting) or with 404 (the posting is already gone) resolves; so two calls in
\* sequence for the same id both report success.
C8_DeleteTwiceBothSucceed ==
    \A i \in 1..Len(deleteLog) :
        LET c == deleteLog[i]
        IN  (c.fn = "deleteOferta" /\ (Ok(c.response) \/ c.response.status = 404))
                => c.outcome = Resolved("undefined")

\* deleteOferta twice: the backend deleted on the first call and answered 404 on
\* the second, and both calls resolved
C8_Witness ==
    /\ Len(deleteLog) >= 2
    /\ deleteLog[1].fn = "deleteOferta" /\ deleteLog[2].fn = "deleteOferta"
    /\ Ok(deleteLog[1].response) /\ deleteLog[2].response.status = 404
    /\ deleteLog[1].outcome.state = "resolved" /\ deleteLog[2].outcome.state = "resolved"
    /\ ~backend.exists

\* C9: deleteOfertaAdmin resolves exactly for a 2xx response; for every other
\* response, 404 included, it rejects with the error that carries the status and
\* the body text, where deleteOferta resolves for the same 404.
C9_AdminDeleteNo404Tolerance ==
    \A i \in 1..Len(deleteLog) :
        LET c == deleteLog[i]
        IN  c.fn = "deleteOfertaAdmin" =>
                /\ c.outcome.state = "resolved" <=> Ok(c.response)
                /\ (c.response.type = "response" /\ ~Ok(c.response)) =>
                       /\ c.outcome = Rejected(RequestFailed(c.response))
                       /\ c.outcome.error.message.status = c.response.status
                       /\ c.outcome.error.message.text = c.response.body
                /\ c.response.status = 404 => deleteOferta(c.response).state = "resolved"

\* the posting was deleted, then deleteOfertaAdmin got 404 and rejected
C9_Witness ==
    /\ Len(deleteLog) >= 2
    /\ Ok(deleteLog[1].response)
    /\ deleteLog[2].fn = "deleteOfertaAdmin"
    /\ deleteLog[2].response.status = 404
    /\ deleteLog[2].outcome.state = "rejected"
    /\ IsRequestFailed(deleteLog[2].outcome.error)

IsListFetch(c) == c.fn \in {"fetchOfertas", "fetchUserOfertas"}
HasObjectBody(c) == c.response.type = "response" /\ JsonKind(c.response.body) = "object"

\* C10 as stated: any response whose body is a JSON object makes fetchOfertas and
\* fetchUserOfertas reject with the malformed-response error.
C10_ObjectBodyAlwaysMalformed ==
    (IsListFetch(apiCall) /\ HasObjectBody(apiCall)) =>
        (apiCall.outcome.state = "rejected" /\ IsMalformed(apiCall.outcome.error))

\* C10 amended: a 2xx response whose body is a JSON object makes fetchOfertas and
\* fetchUserOfertas reject with the malformed-response error; a non-2xx response
\* with such a body rejects with the request-failed error; neither resolves.
C10_OkObjectBodyMalformed ==
    (IsListFetch(apiCall) /\ HasObjectBody(apiCall)) =>
        /\ apiCall.outcome.state = "rejected"
        /\ Ok(apiCall.response) => apiCall.outcome.error = NotAnArray
        /\ ~Ok(apiCall.response) => apiCall.outcome.error = RequestFailed(apiCall.response)

\* fetchOfertas got 200 with an object body and rejected with "not an array"
C10_Witness ==
    /\ apiCall.fn = "fetchOfertas"
    /\ apiCall.response.status = 200
    /\ JsonKind(apiCall.response.body) = "object"
    /\ apiCall.outcome = Rejected(NotAnArray)

----------------------------------------------------------------------------
(* Claims about the forms, checked under Spec (C7 under FairSpec).          *)

\* a step that hands a new request to fetch
Sends == Len(requests') > Len(requests)
\* the request such a step has just sent
JustSent == requests'[Len(requests')]
\* a step in which a request in flight settles with a rejection
SettlesRejected == Len(requests') < Len(requests) /\ mutation'.status = "error"

\* C2: the habilitado value carried by every update payload equals the posting's
\* habilitado value on the backend at the moment the update is sent.
C2_UpdateCarriesCurrentHabilitado ==
    [][(page = "edit" /\ Sends) => JustSent.oferta.habilitado = backend.habilitado]_vars

\* C3: each form has at most one create/update request in flight, and while it is
\* in flight isSubmitting holds, which disables the submit control.
C3_AtMostOneInFlight ==
    /\ Len(requests) <= 1
    /\ requests # << >> => isSubmitting

\* a request is in flight and the submit control is disabled
C3_Witness ==
    /\ Len(requests) = 1
    /\ isSubmitting
    /\ ~SubmitEnabled
    /\ mutation.status = "pending"

\* C4: a request is sent only from form values that satisfy the whole schema; a
\* submit event on values that violate a rule sends nothing.
C4_OnlyValidValuesAreSent ==
    [][Sends => \E now \in Clock : Validate(page, form, now) = << >>]_vars

\* a submit event was blocked by validation: the values violate a rule and nothing
\* was sent
C4_Witness ==
    /\ lastSubmit = "invalid"
    /\ \A now \in Clock : Validate(page, form, now) # << >>
    /\ requests = << >>
    /\ mutation.status = "idle"
    /\ ~isSubmitting

\* C5: in both forms, when a submission's request fails the API client's error
\* message is shown unchanged (submitError) and every field keeps its value.
C5_FailureShownValuesKept ==
    [][SettlesRejected =>
          /\ submitError' = mutation'.error.message
          /\ submitError' # NoMsg
          /\ form' = form]_vars

\* C6 as stated: once a failure message is shown, the next edit of a field clears it.
C6_EditClearsFailure ==
    [][(submitError # NoMsg /\ form' # form) => submitError' = NoMsg]_vars

\* C6 amended: a failure message stays, unchanged, while fields are edited; it is
\* cleared only by the start of the next submission that passes validation.
C6_FailureClearedOnlyBySubmit ==
    [][submitError # NoMsg =>
          /\ form' # form => submitError' = submitError
          /\ submitError' = NoMsg =>
                 (Sends /\ isSubmitting' /\ mutation'.status = "pending" /\ form' = form)]_vars

\* the failure message of the edit form is still shown after a later submit event,
\* on values changed since the failed request was sent, was blocked by validation
C6_Witness ==
    /\ page = "edit"
    /\ submitError # NoMsg
    /\ mutation.status = "error"
    /\ lastSubmit = "invalid"
    /\ form # EditDefaults(oferta)

\* C7: every successful submission is eventually followed by a navigation away from
\* the form; the navigation is scheduled by the success alone, 5000 ms ahead, to
\* "/" for create and to "/mis-avisos" for edit; a failed submission schedules
\* none and navigates nowhere.
C7_SuccessLeadsToNavigation ==
    /\ (mutation.status = "success") ~> (route # FormRoute(page))
    /\ [][Len(timers') > Len(timers) =>
              /\ mutation'.status = "success" /\ mutation.status = "pending"
              /\ timers'[Len(timers')].delay = 5000
              /\ timers'[Len(timers')].target = IF page = "create" THEN "/" ELSE "/mis-avisos"]_vars
    /\ [][SettlesRejected => (timers' = timers /\ route' = route)]_vars
    /\ [][route' # route => route' = IF page = "create" THEN "/" ELSE "/mis-avisos"]_vars

\* the timer of a successful submission has fired and navigated away
C7_Witness ==
    /\ mutation.status = "success"
    /\ submitSuccess # ""
    /\ timers = << >>
    /\ route = AfterSuccessRoute(page)

----------------------------------------------------------------------------
(* Further claims about the API client, checked under ApiSpec.              *)

IsSingleFetch(c) == c.fn \in {"fetchOfertaById", "fetchOfertaBySlug"}

\* C11: fetchOfertaById and fetchOfertaBySlug resolve only when the decoded body
\* of a 2xx response is a JSON object, and reject with the malformed-response
\* error for every 2xx response whose decoded body is null, a number, a string, a
\* boolean or an array.
C11_OnlyObjectBodyResolves ==
    IsSingleFetch(apiCall) =>
        /\ apiCall.outcome.state = "resolved" =>
               (Ok(apiCall.response) /\ JsonKind(apiCall.response.body) = "object")
        /\ (Ok(apiCall.response)
               /\ JsonKind(apiCall.response.body)
                      \in {"null", "number", "string", "boolean", "array"})
               => apiCall.outcome = Rejected(NotAnObject)

\* every call ApiSpec has made: the single call, or the calls against the backend
ApiCalls ==
    (IF apiCall = NoCall THEN {} ELSE {apiCall}) \cup {deleteLog[i] : i \in 1..Len(deleteLog)}

\* C12: whenever a response was received, the call resolves, or rejects with the
\* request-failed error carrying the response's status and body text, or rejects
\* with a malformed-response error; it rejects with nothing else.
C12_OnlyTwoErrorKinds ==
    \A c \in ApiCalls :
        c.response.type = "response" =>
            \/ c.outcome.state = "resolved"
            \/ c.outcome = Rejected(RequestFailed(c.response))
            \/ (c.outcome.state = "rejected" /\ IsMalformed(c.outcome.error))

\* C13: when the transport fails with no response, the call rejects with the very
\* value the transport raised.
C13_TransportFailureUnchanged ==
    \A c \in ApiCalls :
        c.response.type = "network_error" => c.outcome = Rejected(FetchTypeError)

\* calls of two different functions, one pure and one against the backend, both met
\* a transport failure and rejected with it
C13_Witness ==
    /\ apiCall.fn = "enableOfertaAdmin"
    /\ apiCall.response = NetworkFailure
    /\ apiCall.outcome.error = FetchTypeError
    /\ Len(deleteLog) = 2
    /\ deleteLog[1].fn = "deleteOferta" /\ deleteLog[1].response = NetworkFailure
    /\ deleteLog[1].outcome = Rejected(FetchTypeError)
    /\ deleteLog[2].fn = "deleteOfertaAdmin" /\ deleteLog[2].response = NetworkFailure
    /\ deleteLog[2].outcome = Rejected(FetchTypeError)

----------------------------------------------------------------------------
(* Claims about formSchema, checked under SchemaSpec.                       *)

\* the values the resolver has run on
ResolvedValues == schemaInput.values
\* the error the form reports on a field once the resolver has run
ErrorOn(path) == schemaResult.errors[path]

\* C14: with channel LINK and linkPostulacion null or empty, validation fails and
\* the error reported on linkPostulacion is the link-required message, whatever
\* emailContacto holds.
C14_EmptyLinkReportsLinkRequired ==
    (/\ schemaResult.done
     /\ ResolvedValues.formaPostulacion = "LINK"
     /\ ResolvedValues.linkPostulacion \in {NULL, EmptyText})
        => /\ schemaResult.issues # << >>
           /\ ErrorOn("linkPostulacion")
                  = "Debes ingresar una URL valida para postulacion por enlace"

\* C16: at any instant of today, a fechaCierre of today passes the closing-date
\* rule and a fechaCierre of yesterday fails it with the closing-date message.
C16_TodayPassesYesterdayFails ==
    schemaResult.done =>
        /\ ResolvedValues.fechaCierre = DayToday => ErrorOn("fechaCierre") = ""
        /\ ResolvedValues.fechaCierre = DayYesterday =>
               ErrorOn("fechaCierre") = "La fecha de cierre no puede ser anterior a hoy"

\* C17: in both schemas a title of exactly 150 allowed characters that is not blank
\* has no error, a title of 151 characters has the max-length error, and a title of
\* 1 to 150 whitespace characters has the not-blank error.
C17_TitleLengthBoundary ==
    schemaResult.done =>
        LET t == ResolvedValues.titulo
        IN  /\ (Len(t) = 150 /\ OnlyChars(t, TituloChars \ Whitespace))
                   => ErrorOn("titulo") = ""
            /\ Len(t) = 151
                   => ErrorOn("titulo") = "El titulo no puede superar los 150 caracteres"
            /\ (Len(t) \in 1..150 /\ OnlyChars(t, Whitespace))
                   => ErrorOn("titulo") = "El titulo no puede ser solo espacios"

\* a form whose title has exactly 150 characters passed the whole schema
C17_Witness ==
    /\ schemaResult.done
    /\ Len(ResolvedValues.titulo) = 150
    /\ ~OnlyChars(ResolvedValues.titulo, Whitespace)
    /\ schemaResult.issues = << >>

\* C19: a company name the create schema accepts is accepted by the edit schema,
\* and a name the edit schema accepts but the create schema rejects contains ','
\* or '-'.
C19_EditAllowlistExtendsCreate ==
    (schemaResult.done /\ schemaInput.flow = "edit") =>
        LET v == ResolvedValues.empresaConsultora
        IN  /\ EmpresaIssues("create", v) = << >> => ErrorOn("empresaConsultora") = ""
            /\ (ErrorOn("empresaConsultora") = "" /\ EmpresaIssues("create", v) # << >>)
                   => (Positions(v, ",") \cup Positions(v, "-")) # {}

----------------------------------------------------------------------------
(* Further claims about the forms, checked under Spec.                      *)

\* the create form shows channel LINK and, emailContacto aside, valid values
LinkFormValidButEmail ==
    /\ page = "create"
    /\ form.formaPostulacion = "LINK"
    /\ \A now \in Clock : Validate("create", [form EXCEPT !.emailContacto = NULL], now) = << >>

\* C15: in the create form with channel LINK, a valid linkPostulacion and every
\* other field valid, a submit event sends the request whatever emailContacto
\* still holds.
C15_StaleEmailIrrelevantForLink ==
    [][(LinkFormValidButEmail /\ lastSubmit' # lastSubmit)
          => (lastSubmit' = "valid" /\ Sends)]_vars

\* C18: a PNG logo of 5,242,880 bytes has no logo error and one of 5,242,881
\* bytes has the size error, in every form state; no request carries a logo part
\* larger than 5,242,880 bytes.
C18_LogoSizeBoundary ==
    /\ \A now \in Clock :
           LET errors == FieldErrors(ResolverIssues(page, form, now))
           IN  /\ form.logo = File(5242880, "image/png") => errors["logo"] = ""
               /\ form.logo = File(5242881, "image/png")
                      => errors["logo"] = "El archivo no puede superar los 5MB"
    /\ \A i \in 1..Len(requests) :
           HasFile(requests[i].logo) => requests[i].logo.size <= 5242880

\* a create request carrying a PNG logo of exactly 5,242,880 bytes is in flight
C18_Witness ==
    /\ page = "create"
    /\ requests # << >>
    /\ requests[1].method = "POST"
    /\ requests[1].logo = File(5242880, "image/png")

\* C20: in the edit form the field that formaPostulacion does not select is null:
\* emailContacto when the channel is LINK, linkPostulacion when it is MAIL.
C20_UnusedContactFieldIsNull ==
    page = "edit" =>
        /\ form.formaPostulacion = "LINK" => form.emailContacto = NULL
        /\ form.formaPostulacion = "MAIL" => form.linkPostulacion = NULL

\* the edit form of a posting with an email, switched to LINK and given a link:
\* the email loaded at initialisation has been cleared
C20_Witness ==
    /\ page = "edit"
    /\ oferta.formaPostulacion = "MAIL"
    /\ EditDefaults(oferta).emailContacto = EmailOk
    /\ form.formaPostulacion = "LINK"
    /\ form.linkPostulacion = LinkOk
    /\ form.emailContacto = NULL

----------------------------------------------------------------------------
(* Claims about the session, checked under SessionSpec.                     *)

\* C21: every update request the edit form sends carries, as usuario.id, the
\* id of the posting's owner as the backend stores it, whoever is signed in.
C21_UpdateKeepsOwner ==
    [][(page = "edit" /\ Sends) => JustSent.oferta.usuario = oferta.usuarioId]_vars

\* C22: in every session state, the create form sends no create request whose
\* user id or bearer token is empty.
C22_CreateOnlyWhenAuthenticated ==
    [][(page = "create" /\ Sends) =>
           (JustSent.oferta.usuario # "" /\ JustSent.authorization # "")]_vars

----------------------------------------------------------------------------
(* Claims about the effects of a submission, checked under Spec.            *)

\* a step in which a request in flight settles with createOferta / updateOferta resolved
SettlesResolved == Len(requests') < Len(requests) /\ mutation'.status = "success"

\* C23: the form hands query keys to invalidateQueries in exactly the steps in
\* which its create/update call resolves; a submit event blocked by validation,
\* a rejected call and every other step leave the invalidations as they were.
C23_InvalidatesIffSuccess ==
    [][(invalidations' # invalidations) <=> SettlesResolved]_vars

\* the edit form's update resolved and both of its query keys were invalidated
\* once; a later submit event was blocked by validation and added nothing
C23_Witness ==
    /\ page = "edit"
    /\ mutation.status = "success"
    /\ lastSubmit = "invalid"
    /\ requests = << >>
    /\ invalidations = <<"jobPost/{id}", "userJobPosts">>

\* C24: an update request of the edit form carries the literal "null" as logoUrl
\* exactly when the form holds no logo URL; once the existing logo is removed it
\* stays removed, so every later update sends "null", and until it is removed
\* every update sends the logo URL of the posting the form was opened with.
C24_LogoUrlNullLiteralAfterRemoval ==
    [][/\ (page = "edit" /\ existingLogoUrl = NULL) => existingLogoUrl' = NULL
       /\ (page = "edit" /\ Sends) =>
              /\ JustSent.logoUrl = NullLiteral <=> existingLogoUrl \in {NULL, UNDEFINED}
              /\ existingLogoUrl \notin {NULL, UNDEFINED} => JustSent.logoUrl = oferta.logoUrl]_vars

\* the existing logo was removed and an update with logoUrl "null" is in flight
C24_Witness ==
    /\ page = "edit"
    /\ Truthy(oferta.logoUrl)
    /\ existingLogoUrl = NULL
    /\ requests # << >>
    /\ requests[1].logoUrl = NullLiteral

\* a step in which a pending timer's callback runs router.push
TimerNavigates == Len(timers') < Len(timers)

\* C25: the delayed navigation scheduled on success runs only while the form is
\* still shown: not after the success dialog was dismissed (which has already
\* navigated), and not after the form was left.
C25_NoNavigationAfterLeaving ==
    [][TimerNavigates => Mounted]_vars

\* C26: whenever a request settles, resolved or rejected, isSubmitting is false
\* afterwards, and in every state without a request in flight it is false, so
\* the submit control is enabled.
C26_SubmittingNeverStuck ==
    /\ [](requests = << >> => ~isSubmitting)
    /\ [][Len(requests') < Len(requests) => ~isSubmitting']_vars

\* a request was rejected and the form, still shown, can be submitted again
C26_Witness ==
    /\ mutation.status = "error"
    /\ requests = << >>
    /\ ~isSubmitting
    /\ SubmitEnabled

\* the form has reached Success and has not navigated away yet
InSuccessWindow == Mounted /\ mutation.status = "success" /\ timers # << >>

\* C27: once the form has reached Success, it sends no further create/update
\* request while the delayed navigation is pending, whatever is submitted.
C27_NoRequestInSuccessWindow ==
    [][InSuccessWindow => ~Sends]_vars

====
